---- MODULE Spec2Model ----
(***************************************************************************)
(* Model of wemapp.py: the ROC-calendar date normaliser (parse_roc_date,   *)
(* date_to_roc_str) and the person-day cost allocation (calculate_costs).  *)
(*                                                                         *)
(* Text is a sequence of characters.  A character of the ASCII range is    *)
(* the one-character string, with the escapes \t, \n, \f and \r; any other *)
(* character is the string "U+" followed by its code point in hexadecimal, *)
(* and a name made of such characters is the string of their code points.  *)
(* A table cell is a record [na, s]: na is what pd.isna() answers for it,  *)
(* s is its text.  A date is a record [year, month, day]; None is the      *)
(* all-zero record.  Unrounded money is a float (binary64), kept as sign,  *)
(* significand bits and exponent.                                          *)
(***************************************************************************)
EXTENDS Integers, Sequences, FiniteSets, TLC

VARIABLES
    \* calculate_costs
    df_bills,         \* the bills table object the caller passed (edited_bills)
    df_students,      \* the residents table object the caller passed (edited_students)
    pc,               \* position inside calculate_costs
    unique_students,  \* sequence of names, order of first appearance
    cost_details,     \* name -> bill name -> float
    day_details,      \* name -> bill name -> integer
    total_costs,      \* name -> float
    daily_log,        \* sequence of [bill, amount] anomaly entries
    bill_idx,         \* number of bill rows the outer loop has finished
    temp_student_days,  \* name -> days, for the bill row finished last
    total_person_days,  \* for the bill row finished last
    result,           \* the returned 4-tuple
    \* date round trip
    rt_d, rt_how, rt_text, rt_out, rt_pc,
    \* parse_roc_date on arbitrary text
    p_in, p_out, p_pc

calc_vars == <<df_bills, df_students, pc, unique_students, cost_details, day_details,
               total_costs, daily_log, bill_idx, temp_student_days, total_person_days,
               result>>
rt_vars == <<rt_d, rt_how, rt_text, rt_out, rt_pc>>
p_vars == <<p_in, p_out, p_pc>>
vars == <<calc_vars, rt_vars, p_vars>>

----------------------------------------------------------------------------
(* Text helpers *)

Range(s) == {s[i] : i \in DOMAIN s}

\* The decimal digits of Unicode (category Nd), which are what \d matches in a str
\* pattern and what int() reads: one row per script, the digits 0 to 9 in order.
DigitRows ==
    <<
      <<"0", "1", "2", "3", "4", "5", "6", "7", "8", "9">>,
      <<"U+0660", "U+0661", "U+0662", "U+0663", "U+0664", "U+0665", "U+0666", "U+0667", "U+0668", "U+0669">>,
      <<"U+06F0", "U+06F1", "U+06F2", "U+06F3", "U+06F4", "U+06F5", "U+06F6", "U+06F7", "U+06F8", "U+06F9">>,
      <<"U+07C0", "U+07C1", "U+07C2", "U+07C3", "U+07C4", "U+07C5", "U+07C6", "U+07C7", "U+07C8", "U+07C9">>,
      <<"U+0966", "U+0967", "U+0968", "U+0969", "U+096A", "U+096B", "U+096C", "U+096D", "U+096E", "U+096F">>,
      <<"U+09E6", "U+09E7", "U+09E8", "U+09E9", "U+09EA", "U+09EB", "U+09EC", "U+09ED", "U+09EE", "U+09EF">>,
      <<"U+0A66", "U+0A67", "U+0A68", "U+0A69", "U+0A6A", "U+0A6B", "U+0A6C", "U+0A6D", "U+0A6E", "U+0A6F">>,
      <<"U+0AE6", "U+0AE7", "U+0AE8", "U+0AE9", "U+0AEA", "U+0AEB", "U+0AEC", "U+0AED", "U+0AEE", "U+0AEF">>,
      <<"U+0B66", "U+0B67", "U+0B68", "U+0B69", "U+0B6A", "U+0B6B", "U+0B6C", "U+0B6D", "U+0B6E", "U+0B6F">>,
      <<"U+0BE6", "U+0BE7", "U+0BE8", "U+0BE9", "U+0BEA", "U+0BEB", "U+0BEC", "U+0BED", "U+0BEE", "U+0BEF">>,
      <<"U+0C66", "U+0C67", "U+0C68", "U+0C69", "U+0C6A", "U+0C6B", "U+0C6C", "U+0C6D", "U+0C6E", "U+0C6F">>,
      <<"U+0CE6", "U+0CE7", "U+0CE8", "U+0CE9", "U+0CEA", "U+0CEB", "U+0CEC", "U+0CED", "U+0CEE", "U+0CEF">>,
      <<"U+0D66", "U+0D67", "U+0D68", "U+0D69", "U+0D6A", "U+0D6B", "U+0D6C", "U+0D6D", "U+0D6E", "U+0D6F">>,
      <<"U+0DE6", "U+0DE7", "U+0DE8", "U+0DE9", "U+0DEA", "U+0DEB", "U+0DEC", "U+0DED", "U+0DEE", "U+0DEF">>,
      <<"U+0E50", "U+0E51", "U+0E52", "U+0E53", "U+0E54", "U+0E55", "U+0E56", "U+0E57", "U+0E58", "U+0E59">>,
      <<"U+0ED0", "U+0ED1", "U+0ED2", "U+0ED3", "U+0ED4", "U+0ED5", "U+0ED6", "U+0ED7", "U+0ED8", "U+0ED9">>,
      <<"U+0F20", "U+0F21", "U+0F22", "U+0F23", "U+0F24", "U+0F25", "U+0F26", "U+0F27", "U+0F28", "U+0F29">>,
      <<"U+1040", "U+1041", "U+1042", "U+1043", "U+1044", "U+1045", "U+1046", "U+1047", "U+1048", "U+1049">>,
      <<"U+1090", "U+1091", "U+1092", "U+1093", "U+1094", "U+1095", "U+1096", "U+1097", "U+1098", "U+1099">>,
      <<"U+17E0", "U+17E1", "U+17E2", "U+17E3", "U+17E4", "U+17E5", "U+17E6", "U+17E7", "U+17E8", "U+17E9">>,
      <<"U+1810", "U+1811", "U+1812", "U+1813", "U+1814", "U+1815", "U+1816", "U+1817", "U+1818", "U+1819">>,
      <<"U+1946", "U+1947", "U+1948", "U+1949", "U+194A", "U+194B", "U+194C", "U+194D", "U+194E", "U+194F">>,
      <<"U+19D0", "U+19D1", "U+19D2", "U+19D3", "U+19D4", "U+19D5", "U+19D6", "U+19D7", "U+19D8", "U+19D9">>,
      <<"U+1A80", "U+1A81", "U+1A82", "U+1A83", "U+1A84", "U+1A85", "U+1A86", "U+1A87", "U+1A88", "U+1A89">>,
      <<"U+1A90", "U+1A91", "U+1A92", "U+1A93", "U+1A94", "U+1A95", "U+1A96", "U+1A97", "U+1A98", "U+1A99">>,
      <<"U+1B50", "U+1B51", "U+1B52", "U+1B53", "U+1B54", "U+1B55", "U+1B56", "U+1B57", "U+1B58", "U+1B59">>,
      <<"U+1BB0", "U+1BB1", "U+1BB2", "U+1BB3", "U+1BB4", "U+1BB5", "U+1BB6", "U+1BB7", "U+1BB8", "U+1BB9">>,
      <<"U+1C40", "U+1C41", "U+1C42", "U+1C43", "U+1C44", "U+1C45", "U+1C46", "U+1C47", "U+1C48", "U+1C49">>,
      <<"U+1C50", "U+1C51", "U+1C52", "U+1C53", "U+1C54", "U+1C55", "U+1C56", "U+1C57", "U+1C58", "U+1C59">>,
      <<"U+A620", "U+A621", "U+A622", "U+A623", "U+A624", "U+A625", "U+A626", "U+A627", "U+A628", "U+A629">>,
      <<"U+A8D0", "U+A8D1", "U+A8D2", "U+A8D3", "U+A8D4", "U+A8D5", "U+A8D6", "U+A8D7", "U+A8D8", "U+A8D9">>,
      <<"U+A900", "U+A901", "U+A902", "U+A903", "U+A904", "U+A905", "U+A906", "U+A907", "U+A908", "U+A909">>,
      <<"U+A9D0", "U+A9D1", "U+A9D2", "U+A9D3", "U+A9D4", "U+A9D5", "U+A9D6", "U+A9D7", "U+A9D8", "U+A9D9">>,
      <<"U+A9F0", "U+A9F1", "U+A9F2", "U+A9F3", "U+A9F4", "U+A9F5", "U+A9F6", "U+A9F7", "U+A9F8", "U+A9F9">>,
      <<"U+AA50", "U+AA51", "U+AA52", "U+AA53", "U+AA54", "U+AA55", "U+AA56", "U+AA57", "U+AA58", "U+AA59">>,
      <<"U+ABF0", "U+ABF1", "U+ABF2", "U+ABF3", "U+ABF4", "U+ABF5", "U+ABF6", "U+ABF7", "U+ABF8", "U+ABF9">>,
      <<"U+FF10", "U+FF11", "U+FF12", "U+FF13", "U+FF14", "U+FF15", "U+FF16", "U+FF17", "U+FF18", "U+FF19">>,
      <<"U+104A0", "U+104A1", "U+104A2", "U+104A3", "U+104A4", "U+104A5", "U+104A6", "U+104A7", "U+104A8", "U+104A9">>,
      <<"U+10D30", "U+10D31", "U+10D32", "U+10D33", "U+10D34", "U+10D35", "U+10D36", "U+10D37", "U+10D38", "U+10D39">>,
      <<"U+11066", "U+11067", "U+11068", "U+11069", "U+1106A", "U+1106B", "U+1106C", "U+1106D", "U+1106E", "U+1106F">>,
      <<"U+110F0", "U+110F1", "U+110F2", "U+110F3", "U+110F4", "U+110F5", "U+110F6", "U+110F7", "U+110F8", "U+110F9">>,
      <<"U+11136", "U+11137", "U+11138", "U+11139", "U+1113A", "U+1113B", "U+1113C", "U+1113D", "U+1113E", "U+1113F">>,
      <<"U+111D0", "U+111D1", "U+111D2", "U+111D3", "U+111D4", "U+111D5", "U+111D6", "U+111D7", "U+111D8", "U+111D9">>,
      <<"U+112F0", "U+112F1", "U+112F2", "U+112F3", "U+112F4", "U+112F5", "U+112F6", "U+112F7", "U+112F8", "U+112F9">>,
      <<"U+11450", "U+11451", "U+11452", "U+11453", "U+11454", "U+11455", "U+11456", "U+11457", "U+11458", "U+11459">>,
      <<"U+114D0", "U+114D1", "U+114D2", "U+114D3", "U+114D4", "U+114D5", "U+114D6", "U+114D7", "U+114D8", "U+114D9">>,
      <<"U+11650", "U+11651", "U+11652", "U+11653", "U+11654", "U+11655", "U+11656", "U+11657", "U+11658", "U+11659">>,
      <<"U+116C0", "U+116C1", "U+116C2", "U+116C3", "U+116C4", "U+116C5", "U+116C6", "U+116C7", "U+116C8", "U+116C9">>,
      <<"U+11730", "U+11731", "U+11732", "U+11733", "U+11734", "U+11735", "U+11736", "U+11737", "U+11738", "U+11739">>,
      <<"U+118E0", "U+118E1", "U+118E2", "U+118E3", "U+118E4", "U+118E5", "U+118E6", "U+118E7", "U+118E8", "U+118E9">>,
      <<"U+11950", "U+11951", "U+11952", "U+11953", "U+11954", "U+11955", "U+11956", "U+11957", "U+11958", "U+11959">>,
      <<"U+11C50", "U+11C51", "U+11C52", "U+11C53", "U+11C54", "U+11C55", "U+11C56", "U+11C57", "U+11C58", "U+11C59">>,
      <<"U+11D50", "U+11D51", "U+11D52", "U+11D53", "U+11D54", "U+11D55", "U+11D56", "U+11D57", "U+11D58", "U+11D59">>,
      <<"U+11DA0", "U+11DA1", "U+11DA2", "U+11DA3", "U+11DA4", "U+11DA5", "U+11DA6", "U+11DA7", "U+11DA8", "U+11DA9">>,
      <<"U+16A60", "U+16A61", "U+16A62", "U+16A63", "U+16A64", "U+16A65", "U+16A66", "U+16A67", "U+16A68", "U+16A69">>,
      <<"U+16AC0", "U+16AC1", "U+16AC2", "U+16AC3", "U+16AC4", "U+16AC5", "U+16AC6", "U+16AC7", "U+16AC8", "U+16AC9">>,
      <<"U+16B50", "U+16B51", "U+16B52", "U+16B53", "U+16B54", "U+16B55", "U+16B56", "U+16B57", "U+16B58", "U+16B59">>,
      <<"U+1D7CE", "U+1D7CF", "U+1D7D0", "U+1D7D1", "U+1D7D2", "U+1D7D3", "U+1D7D4", "U+1D7D5", "U+1D7D6", "U+1D7D7">>,
      <<"U+1D7D8", "U+1D7D9", "U+1D7DA", "U+1D7DB", "U+1D7DC", "U+1D7DD", "U+1D7DE", "U+1D7DF", "U+1D7E0", "U+1D7E1">>,
      <<"U+1D7E2", "U+1D7E3", "U+1D7E4", "U+1D7E5", "U+1D7E6", "U+1D7E7", "U+1D7E8", "U+1D7E9", "U+1D7EA", "U+1D7EB">>,
      <<"U+1D7EC", "U+1D7ED", "U+1D7EE", "U+1D7EF", "U+1D7F0", "U+1D7F1", "U+1D7F2", "U+1D7F3", "U+1D7F4", "U+1D7F5">>,
      <<"U+1D7F6", "U+1D7F7", "U+1D7F8", "U+1D7F9", "U+1D7FA", "U+1D7FB", "U+1D7FC", "U+1D7FD", "U+1D7FE", "U+1D7FF">>,
      <<"U+1E140", "U+1E141", "U+1E142", "U+1E143", "U+1E144", "U+1E145", "U+1E146", "U+1E147", "U+1E148", "U+1E149">>,
      <<"U+1E2F0", "U+1E2F1", "U+1E2F2", "U+1E2F3", "U+1E2F4", "U+1E2F5", "U+1E2F6", "U+1E2F7", "U+1E2F8", "U+1E2F9">>,
      <<"U+1E950", "U+1E951", "U+1E952", "U+1E953", "U+1E954", "U+1E955", "U+1E956", "U+1E957", "U+1E958", "U+1E959">>,
      <<"U+1FBF0", "U+1FBF1", "U+1FBF2", "U+1FBF3", "U+1FBF4", "U+1FBF5", "U+1FBF6", "U+1FBF7", "U+1FBF8", "U+1FBF9">>
    >>

Digits == UNION {Range(DigitRows[i]) : i \in DOMAIN DigitRows}

\* the value int() gives the digit c
DigitValues ==
    [c \in Digits |->
        CHOOSE v \in 0..9 : \E i \in DOMAIN DigitRows : DigitRows[i][v + 1] = c]

DigitVal(c) == DigitValues[c]

DigitChar(n) ==
    CASE n = 0 -> "0" [] n = 1 -> "1" [] n = 2 -> "2" [] n = 3 -> "3" [] n = 4 -> "4"
      [] n = 5 -> "5" [] n = 6 -> "6" [] n = 7 -> "7" [] n = 8 -> "8" [] n = 9 -> "9"

\* the separator class [/\-\.] of the pattern
Seps == {"/", "-", "."}

\* the characters str.strip() removes: those for which str.isspace() holds
Whitespace ==
    {"\t", "\n", "U+000B", "\f", "\r", "U+001C", "U+001D", "U+001E", "U+001F", " ",
     "U+0085", "U+00A0", "U+1680", "U+2000", "U+2001", "U+2002", "U+2003", "U+2004",
     "U+2005", "U+2006", "U+2007", "U+2008", "U+2009", "U+200A", "U+2028", "U+2029",
     "U+202F", "U+205F", "U+3000"}

RECURSIVE LStrip(_)
LStrip(s) == IF s # <<>> /\ Head(s) \in Whitespace THEN LStrip(Tail(s)) ELSE s

RECURSIVE RStrip(_)
RStrip(s) ==
    IF s # <<>> /\ s[Len(s)] \in Whitespace THEN RStrip(SubSeq(s, 1, Len(s) - 1)) ELSE s

\* str.strip()
Strip(s) == RStrip(LStrip(s))

\* int() of the digits s[from .. from+len-1]
RECURSIVE ToInt(_, _, _)
ToInt(s, from, len) ==
    IF len = 0 THEN 0
    ELSE 10 * ToInt(s, from, len - 1) + DigitVal(s[from + len - 1])

\* decimal digits of a natural number
RECURSIVE NatToStr(_)
NatToStr(n) == IF n < 10 THEN <<DigitChar(n)>> ELSE NatToStr(n \div 10) \o <<DigitChar(n % 10)>>

\* format(n, "d")
IntToStr(n) == IF n < 0 THEN <<"-">> \o NatToStr(-n) ELSE NatToStr(n)

\* format(n, "02d") for n >= 0
Pad2(n) == IF n < 10 THEN <<"0">> \o NatToStr(n) ELSE NatToStr(n)

----------------------------------------------------------------------------
(* datetime.date *)

None == [year |-> 0, month |-> 0, day |-> 0]

RocOffset == 1911

IsLeap(y) == (y % 4 = 0) /\ ((y % 100 # 0) \/ (y % 400 = 0))

DaysInMonth(y, m) ==
    IF m = 2 THEN (IF IsLeap(y) THEN 29 ELSE 28)
    ELSE IF m \in {4, 6, 9, 11} THEN 30 ELSE 31

\* date(y, m, d) raises ValueError unless this holds
ValidDate(y, m, d) ==
    /\ y \in 1..9999
    /\ m \in 1..12
    /\ d \in 1..DaysInMonth(y, m)

\* the days of the year that precede the first day of month m
DaysBeforeMonth(y, m) ==
    <<0, 31, 59, 90, 120, 151, 181, 212, 243, 273, 304, 334>>[m]
    + (IF m > 2 /\ IsLeap(y) THEN 1 ELSE 0)

\* date.toordinal(): the day number that date comparison and subtraction rest on
Ordinal(dt) ==
    LET y1 == dt.year - 1
    IN  y1 * 365 + (y1 \div 4) - (y1 \div 100) + (y1 \div 400)
        + DaysBeforeMonth(dt.year, dt.month) + dt.day

----------------------------------------------------------------------------
(* parse_roc_date: re.match(r'(\d{2,3})[/\-\.]?(\d{1,2})[/\-\.]?(\d{1,2})', s) *)

\* the mutant: a year group of exactly three digits
YearLensOnly3 == {3}

\* \d{2,3}
YearLens == {2, 3}

\* \d{1,2}
FieldLens == {1, 2}

IsDigitRun(s, from, len) ==
    /\ from + len - 1 <= Len(s)
    /\ \A k \in 0..(len - 1) : s[from + k] \in Digits

\* One way of dividing a prefix of s among the five pattern items: yl digits, u1
\* separator characters (0 or 1), ml digits, u2 separator characters, dl digits.
MatchesAs(s, yl, u1, ml, u2, dl) ==
    /\ IsDigitRun(s, 1, yl)
    /\ (u1 = 1) => (yl + 1 <= Len(s) /\ s[yl + 1] \in Seps)
    /\ IsDigitRun(s, yl + u1 + 1, ml)
    /\ (u2 = 1) => (yl + u1 + ml + 1 <= Len(s) /\ s[yl + u1 + ml + 1] \in Seps)
    /\ IsDigitRun(s, yl + u1 + ml + u2 + 1, dl)

\* The divisions in the order in which a backtracking matcher tries them: every
\* quantifier is greedy, so the longer choice is tried first, and the leftmost item
\* is the last to give way.  Division(0) is the longest everywhere.
Division(k) ==
    [yl |-> 3 - ((k \div 16) % 2), u1 |-> 1 - ((k \div 8) % 2), ml |-> 2 - ((k \div 4) % 2),
     u2 |-> 1 - ((k \div 2) % 2), dl |-> 2 - (k % 2)]

NoMatch == [yl |-> 0, u1 |-> 0, ml |-> 0, u2 |-> 0, dl |-> 0]

Fits(s, c) ==
    /\ c.yl \in YearLens /\ c.ml \in FieldLens /\ c.dl \in FieldLens
    /\ MatchesAs(s, c.yl, c.u1, c.ml, c.u2, c.dl)

\* the match re.match returns: the first division, from the k-th on, that succeeds
RECURSIVE FirstMatch(_, _)
FirstMatch(s, k) ==
    IF k > 31 THEN NoMatch
    ELSE IF Fits(s, Division(k)) THEN Division(k)
    ELSE FirstMatch(s, k + 1)

\* match.groups() after map(int, ...)
Groups(s, c) ==
    [roc_year |-> ToInt(s, 1, c.yl),
     month    |-> ToInt(s, c.yl + c.u1 + 1, c.ml),
     day      |-> ToInt(s, c.yl + c.u1 + c.ml + c.u2 + 1, c.dl)]

parse_roc_date(cell) ==
    IF cell.na \/ Strip(cell.s) = <<>> THEN None
    ELSE LET date_str == Strip(cell.s)
             match == FirstMatch(date_str, 0)
         IN  IF match = NoMatch THEN None
             ELSE LET g == Groups(date_str, match)
                      gregorian_year == g.roc_year + RocOffset
                  IN  IF ValidDate(gregorian_year, g.month, g.day)
                      THEN [year |-> gregorian_year, month |-> g.month, day |-> g.day]
                      ELSE None

date_to_roc_str(d) ==
    IF d = None THEN <<>>
    ELSE IntToStr(d.year - RocOffset) \o <<"/">> \o Pad2(d.month) \o <<"/">> \o Pad2(d.day)

----------------------------------------------------------------------------
(* Date round trip: a date is rendered, then the text is parsed. *)

\* how many calendar years are taken on each side of a year where the number of
\* digits of (year - 1911) changes
Span == 2

Around(y) == (y - Span)..(y + Span)

\* years - 1911 around 0, 10, 100 and 1000: negative, one, two, three and four digits
RtYears == Around(RocOffset) \cup Around(RocOffset + 10) \cup Around(RocOffset + 100)
           \cup Around(RocOffset + 1000)

RtDates ==
    {dt \in [year : RtYears, month : 1..12, day : 1..31] :
        ValidDate(dt.year, dt.month, dt.day)}

\* the renderings the docstring of parse_roc_date lists: "" is the separator-free one
TypedSeps == {<<"/">>, <<"-">>, <<".">>, <<>>}

\* year - 1911, then month and day as two zero-padded digits, sep between them
Typed(dt, sep) ==
    NatToStr(dt.year - RocOffset) \o sep \o Pad2(dt.month) \o sep \o Pad2(dt.day)

Text(s) == [na |-> FALSE, s |-> s]

Missing == [na |-> TRUE, s |-> <<>>]

RtInit ==
    /\ rt_d \in RtDates
    /\ rt_how = "none"
    /\ rt_text = Missing
    /\ rt_out = None
    /\ rt_pc = "start"

\* the export path: date_to_roc_str(d)
FormatDate ==
    /\ rt_pc = "start"
    /\ rt_text' = Text(date_to_roc_str(rt_d))
    /\ rt_how' = "format"
    /\ rt_pc' = "text"
    /\ UNCHANGED <<rt_d, rt_out>>

\* the input path: the user types the date in one of the four renderings
TypeDate ==
    /\ rt_pc = "start"
    /\ rt_d.year >= RocOffset
    /\ \E sep \in TypedSeps :
        /\ rt_text' = Text(Typed(rt_d, sep))
        /\ rt_how' = (IF sep = <<>> THEN "nosep" ELSE sep[1])
    /\ rt_pc' = "text"
    /\ UNCHANGED <<rt_d, rt_out>>

ParseText ==
    /\ rt_pc = "text"
    /\ rt_out' = parse_roc_date(rt_text)
    /\ rt_pc' = "done"
    /\ UNCHANGED <<rt_d, rt_how, rt_text>>

----------------------------------------------------------------------------
(* parse_roc_date on arbitrary cell values *)

Leads == {<<>>, <<" ">>, <<"x">>, <<"\t">>, <<"U+3000">>}

YearTexts ==
    {<<>>, <<"1">>, <<"9", "9">>, <<"1", "1", "2">>, <<"1", "1", "2", "1">>,
     <<"U+FF11", "U+FF11", "U+FF12">>}

SepTexts == {<<>>, <<"/">>, <<"-">>, <<".">>}

MonthTexts == {<<>>, <<"9">>, <<"0", "9">>, <<"1", "3">>, <<"0", "2">>}

DayTexts ==
    {<<>>, <<"1">>, <<"0", "1">>, <<"3", "2">>, <<"2", "9">>, <<"3", "0">>, <<"0", "U+0661">>}

Trails == {<<>>, <<" ">>, <<"x">>, <<"7">>, <<"\r", "\n">>}

\* what a cell can hold: nothing (None / NaN), or any text put together from the pieces
ParseInputs ==
    {Missing} \cup
    {Text(l \o y \o s1 \o m \o s2 \o d \o t) :
        l \in Leads, y \in YearTexts, s1 \in SepTexts, m \in MonthTexts,
        s2 \in SepTexts, d \in DayTexts, t \in Trails}

PInit ==
    /\ p_in \in ParseInputs
    /\ p_out = None
    /\ p_pc = "start"

ParseCell ==
    /\ p_pc = "start"
    /\ p_out' = parse_roc_date(p_in)
    /\ p_pc' = "done"
    /\ UNCHANGED p_in

----------------------------------------------------------------------------
(* float: IEEE-754 binary64.  A value is (-1)^neg * m * 2^e, where the natural    *)
(* number m is written as the sequence of its bits, lowest first; m is odd, or    *)
(* empty for 0.0, and has at most Precision bits.  The amounts and day counts of  *)
(* the tables are far from the ends of the exponent range, which is left out.     *)

\* the significand of a binary64 has 53 bits
Precision == 53

Abs(x) == IF x < 0 THEN -x ELSE x

\* the bits of a natural number, lowest first
RECURSIVE NatBits(_)
NatBits(n) == IF n = 0 THEN <<>> ELSE <<n % 2>> \o NatBits(n \div 2)

RECURSIVE BitsNat(_)
BitsNat(b) == IF b = <<>> THEN 0 ELSE Head(b) + 2 * BitsNat(Tail(b))

Zeros(k) == [i \in 1..k |-> 0]

Reverse(s) == [i \in 1..Len(s) |-> s[Len(s) + 1 - i]]

\* drop the zero bits above the highest one
RECURSIVE TrimHigh(_)
TrimHigh(b) ==
    IF b # <<>> /\ b[Len(b)] = 0 THEN TrimHigh(SubSeq(b, 1, Len(b) - 1)) ELSE b

\* how many zero bits lie below the lowest one
RECURSIVE LowZeros(_, _)
LowZeros(b, i) == IF i <= Len(b) /\ b[i] = 0 THEN LowZeros(b, i + 1) ELSE i - 1

\* a + b + carry
RECURSIVE BAdd(_, _, _)
BAdd(a, b, carry) ==
    IF a = <<>> /\ b = <<>> THEN (IF carry = 0 THEN <<>> ELSE <<carry>>)
    ELSE IF b = <<>> /\ carry = 0 THEN a
    ELSE IF a = <<>> /\ carry = 0 THEN b
    ELSE LET x == IF a = <<>> THEN 0 ELSE Head(a)
             y == IF b = <<>> THEN 0 ELSE Head(b)
             t == x + y + carry
         IN  <<t % 2>> \o BAdd(IF a = <<>> THEN <<>> ELSE Tail(a),
                               IF b = <<>> THEN <<>> ELSE Tail(b), t \div 2)

\* a - b - borrow, for a >= b
RECURSIVE BSub(_, _, _)
BSub(a, b, borrow) ==
    IF a = <<>> THEN <<>>
    ELSE IF b = <<>> /\ borrow = 0 THEN a
    ELSE LET y == IF b = <<>> THEN 0 ELSE Head(b)
             t == Head(a) - y - borrow
         IN  <<t % 2>> \o BSub(Tail(a), IF b = <<>> THEN <<>> ELSE Tail(b),
                               IF t < 0 THEN 1 ELSE 0)

\* a < b, from bit i downwards, for a and b of one length
RECURSIVE BLessFrom(_, _, _)
BLessFrom(a, b, i) ==
    IF i = 0 THEN FALSE
    ELSE IF a[i] # b[i] THEN a[i] < b[i]
    ELSE BLessFrom(a, b, i - 1)

\* a < b, for a and b without zero bits on top
BLess(a, b) ==
    IF Len(a) # Len(b) THEN Len(a) < Len(b) ELSE BLessFrom(a, b, Len(a))

\* b * k + carry, for a small natural number k
RECURSIVE BMulSmall(_, _, _)
BMulSmall(b, k, carry) ==
    IF b = <<>> THEN NatBits(carry)
    ELSE LET t == Head(b) * k + carry
         IN  <<t % 2>> \o BMulSmall(Tail(b), k, t \div 2)

\* 0.0
Zero == [neg |-> FALSE, m |-> <<>>, e |-> 0]

\* the float of value (-1)^neg * m * 2^e, for m of at most Precision bits
Canon(neg, m, e) ==
    IF m = <<>> THEN Zero
    ELSE LET z == LowZeros(m, 1)
         IN  [neg |-> neg, m |-> SubSeq(m, z + 1, Len(m)), e |-> e + z]

\* the float nearest to (-1)^neg * m * 2^e, a tie to the one with an even significand
Round53(neg, m, e) ==
    IF Len(m) <= Precision THEN Canon(neg, m, e)
    ELSE LET k == Len(m) - Precision
             high == SubSeq(m, k + 1, Len(m))
             sticky == \E i \in 1..(k - 1) : m[i] = 1
             up == m[k] = 1 /\ (sticky \/ high[1] = 1)
         IN  Canon(neg, IF up THEN BAdd(high, <<>>, 1) ELSE high, e + k)

\* the quotient bits of r / total, highest first, until the remainder is 0 or there
\* are two bits more than a significand holds; s counts the bits after the point
RECURSIVE DivLoop(_, _, _, _)
DivLoop(r, total, msb, s) ==
    IF r = 0 \/ Len(msb) >= Precision + 2 THEN [q |-> msb, s |-> s, r |-> r]
    ELSE LET b == (2 * r) \div total
         IN  DivLoop((2 * r) % total, total,
                     IF msb = <<>> /\ b = 0 THEN <<>> ELSE Append(msb, b), s + 1)

\* the float of a quotient d that DivLoop left: a bit below the last one stands for
\* a remainder
Quotient(neg, d) ==
    IF d.r = 0 THEN Round53(neg, Reverse(d.q), -d.s)
    ELSE Round53(neg, <<1>> \o Reverse(d.q), -d.s - 1)

\* amount / total in float arithmetic, for integers amount and total > 0: the
\* quotient is rounded once
FDiv(amount, total) ==
    Quotient(amount < 0,
             DivLoop(Abs(amount) % total, total, Reverse(NatBits(Abs(amount) \div total)), 0))

\* days * x in float arithmetic, for a natural number days
FMulInt(days, x) == Round53(x.neg, TrimHigh(BMulSmall(x.m, days, 0)), x.e)

\* x + y in float arithmetic
\* (-1)^xneg * mx * 2^e + (-1)^yneg * my * 2^e, rounded
AddAligned(xneg, mx, yneg, my, e) ==
    IF xneg = yneg THEN Round53(xneg, BAdd(mx, my, 0), e)
    ELSE IF mx = my THEN Zero
    ELSE IF BLess(mx, my) THEN Round53(yneg, TrimHigh(BSub(my, mx, 0)), e)
    ELSE Round53(xneg, TrimHigh(BSub(mx, my, 0)), e)

MinInt(a, b) == IF a < b THEN a ELSE b

FAdd(x, y) ==
    IF x.m = <<>> THEN y
    ELSE IF y.m = <<>> THEN x
    ELSE AddAligned(x.neg, Zeros(x.e - MinInt(x.e, y.e)) \o x.m,
                    y.neg, Zeros(y.e - MinInt(x.e, y.e)) \o y.m, MinInt(x.e, y.e))

\* round(x, 0): the nearest whole number, a tie to the even one
Round0(x) ==
    IF x.m = <<>> THEN 0
    ELSE LET sign == IF x.neg THEN -1 ELSE 1
         IN  IF x.e >= 0 THEN sign * BitsNat(Zeros(x.e) \o x.m)
             ELSE LET k == -x.e
                      q == IF Len(x.m) > k THEN BitsNat(SubSeq(x.m, k + 1, Len(x.m))) ELSE 0
                      half == Len(x.m) >= k /\ x.m[k] = 1
                      up == half /\ (k > 1 \/ q % 2 = 1)
                  IN  sign * (q + (IF up THEN 1 ELSE 0))

----------------------------------------------------------------------------
(* calculate_costs *)

\* the columns of the two tables as the caller passes them
BillColumns == {"name", "amount", "start", "end"}

StudentColumns == {"name", "start", "end"}

\* a DataFrame result, or None in its place
NoTable == [isnone |-> TRUE, rows |-> <<>>]

Table(rows) == [isnone |-> FALSE, rows |-> rows]

BillDateError == "date format error: unrecognised date in the bill data"

StudentDateError == "date format error: unrecognised date in the student data"

\* df[col] = df[raw].apply(parse_roc_date), for both date columns of a table
WithParsedDates(df) ==
    [i \in DOMAIN df |->
        df[i] @@ [start_dt |-> parse_roc_date(df[i].start),
                  end_dt   |-> parse_roc_date(df[i].end)]]

\* the mutant: only the start column is looked at
HasNullStartOnly(df) == \E i \in DOMAIN df : df[i].start_dt = None

\* df['start_dt'].isnull().any() or df['end_dt'].isnull().any()
HasNull(df) == \E i \in DOMAIN df : df[i].start_dt = None \/ df[i].end_dt = None

\* lines 46-62: both tables get their parsed columns, then the null check
Preprocess ==
    /\ pc = "start"
    /\ df_bills' = WithParsedDates(df_bills)
    /\ df_students' = WithParsedDates(df_students)
    /\ IF HasNull(df_bills')
       THEN /\ pc' = "error"
            /\ result' = [cost |-> NoTable, days_view |-> NoTable, days_raw |-> NoTable,
                          logs |-> <<BillDateError>>]
       ELSE IF HasNull(df_students')
       THEN /\ pc' = "error"
            /\ result' = [cost |-> NoTable, days_view |-> NoTable, days_raw |-> NoTable,
                          logs |-> <<StudentDateError>>]
       ELSE /\ pc' = "init"
            /\ UNCHANGED result
    /\ UNCHANGED <<unique_students, cost_details, day_details, total_costs, daily_log,
                   bill_idx, temp_student_days, total_person_days>>

\* Series.unique(): the values in order of first appearance
RECURSIVE UniqueFrom(_, _)
UniqueFrom(s, seen) ==
    IF s = <<>> THEN <<>>
    ELSE IF Head(s) \in seen THEN UniqueFrom(Tail(s), seen)
    ELSE <<Head(s)>> \o UniqueFrom(Tail(s), seen \cup {Head(s)})

Unique(s) == UniqueFrom(s, {})

Column(df, col) == [i \in DOMAIN df |-> df[i][col]]

\* lines 65-69
InitContainers ==
    /\ pc = "init"
    /\ LET names == Unique(Column(df_students, "name"))
           bills == Range(Column(df_bills, "name"))
       IN  /\ unique_students' = names
           /\ cost_details' = [name \in Range(names) |-> [bill \in bills |-> Zero]]
           /\ day_details' = [name \in Range(names) |-> [bill \in bills |-> 0]]
           /\ total_costs' = [name \in Range(names) |-> Zero]
    /\ daily_log' = <<>>
    /\ pc' = "loop"
    /\ UNCHANGED <<df_bills, df_students, bill_idx, temp_student_days, total_person_days,
                   result>>

\* date comparison: by year, then month, then day
DateLE(a, b) ==
    \/ a.year < b.year
    \/ a.year = b.year /\ a.month < b.month
    \/ a.year = b.year /\ a.month = b.month /\ a.day <= b.day

MaxDate(a, b) == IF DateLE(a, b) THEN b ELSE a

MinDate(a, b) == IF DateLE(a, b) THEN a ELSE b

\* the mutant: the end day is not counted
OverlapDaysExclusive(b_start, b_end, s_start, s_end) ==
    LET overlap_start == MaxDate(b_start, s_start)
        overlap_end == MinDate(b_end, s_end)
    IN  IF DateLE(overlap_start, overlap_end)
        THEN Ordinal(overlap_end) - Ordinal(overlap_start)
        ELSE 0

\* lines 87-93
OverlapDays(b_start, b_end, s_start, s_end) ==
    LET overlap_start == MaxDate(b_start, s_start)
        overlap_end == MinDate(b_end, s_end)
    IN  IF DateLE(overlap_start, overlap_end)
        THEN Ordinal(overlap_end) - Ordinal(overlap_start) + 1
        ELSE 0

\* lines 82-96: the loop over the student rows, from row j on
RECURSIVE StudentLoop(_, _, _, _)
StudentLoop(bill, students, j, acc) ==
    IF j > Len(students) THEN acc
    ELSE LET student == students[j]
             days == OverlapDays(bill.start_dt, bill.end_dt,
                                 student.start_dt, student.end_dt)
         IN  StudentLoop(bill, students, j + 1,
                 [temp  |-> [acc.temp EXCEPT ![student.name] = @ + days],
                  total |-> acc.total + days])

\* line 104
CostPerPersonDay(amount, total) == FDiv(amount, total)

\* the mutant: the day count is left out
ShareFlat(days, cost_per_person_day) == cost_per_person_day

\* line 107
Share(days, cost_per_person_day) == FMulInt(days, cost_per_person_day)

\* the mutant: a single person-day counts as none
HasPersonDaysOverOne(total) == total > 1

\* line 103
HasPersonDays(total) == total > 0

\* line 111
LogEntry(bill) == [bill |-> bill.name, amount |-> bill.amount]

\* lines 72-111: one pass of the loop over the bill rows
BillStep ==
    /\ pc = "loop"
    /\ bill_idx < Len(df_bills)
    /\ \E bill \in {df_bills[bill_idx + 1]} :
       \E acc \in {StudentLoop(bill, df_students, 1,
                       [temp |-> [name \in Range(unique_students) |-> 0], total |-> 0])} :
           /\ temp_student_days' = acc.temp
           /\ total_person_days' = acc.total
           /\ day_details' = [name \in DOMAIN day_details |->
                                 [day_details[name] EXCEPT ![bill.name] = acc.temp[name]]]
           /\ IF HasPersonDays(acc.total)
              THEN \E cost_per_person_day \in {CostPerPersonDay(bill.amount, acc.total)} :
                   \E share \in {[name \in {n \in DOMAIN acc.temp : acc.temp[n] > 0} |->
                                     Share(acc.temp[name], cost_per_person_day)]} :
                       /\ total_costs' =
                              [name \in DOMAIN total_costs |->
                                  IF acc.temp[name] > 0
                                  THEN FAdd(total_costs[name], share[name])
                                  ELSE total_costs[name]]
                       /\ cost_details' =
                              [name \in DOMAIN cost_details |->
                                  IF acc.temp[name] > 0
                                  THEN [cost_details[name] EXCEPT ![bill.name] =
                                           FAdd(@, share[name])]
                                  ELSE cost_details[name]]
                       /\ UNCHANGED daily_log
              ELSE /\ daily_log' = Append(daily_log, LogEntry(bill))
                   /\ UNCHANGED <<total_costs, cost_details>>
    /\ bill_idx' = bill_idx + 1
    /\ UNCHANGED <<df_bills, df_students, pc, unique_students, result>>

\* the keys '學生姓名' and '應付總額' of a result row
NameKey == "U+5B78U+751FU+59D3U+540D"

TotalKey == "U+61C9U+4ED8U+7E3DU+984D"

\* f"{days} 天": the count, a blank and the day-unit label
DaysText(days) == IntToStr(days) \o <<" ", "U+5929">>

\* lines 115-119: the row dict of a resident; the bill names are assigned last, so a
\* bill named like one of the two fixed keys takes that key over
CostRow(name, bills) ==
    [k \in {NameKey, TotalKey} \cup bills |->
        IF k \in bills THEN Round0(cost_details[name][k])
        ELSE IF k = NameKey THEN name
        ELSE Round0(total_costs[name])]

\* lines 124-129
DaysViewRow(name, bills) ==
    [k \in {NameKey} \cup bills |->
        IF k \in bills THEN DaysText(day_details[name][k]) ELSE name]

\* lines 125-130
DaysRawRow(name, bills) ==
    [k \in {NameKey} \cup bills |->
        IF k \in bills THEN day_details[name][k] ELSE name]

\* lines 113-133
Output ==
    /\ pc = "loop"
    /\ bill_idx = Len(df_bills)
    /\ LET bills == Range(Column(df_bills, "name"))
       IN  result' =
             [cost |-> Table([k \in DOMAIN unique_students |->
                                 CostRow(unique_students[k], bills)]),
              days_view |-> Table([k \in DOMAIN unique_students |->
                                 DaysViewRow(unique_students[k], bills)]),
              days_raw |-> Table([k \in DOMAIN unique_students |->
                                 DaysRawRow(unique_students[k], bills)]),
              logs |-> daily_log]
    /\ pc' = "done"
    /\ UNCHANGED <<df_bills, df_students, unique_students, cost_details, day_details,
                   total_costs, daily_log, bill_idx, temp_student_days, total_person_days>>

----------------------------------------------------------------------------
(* The tables the caller passes *)

MaxBills == 2

MaxStudents == 2

BillNames == {"W", "E"}

StudentNames == {"A", "B"}

\* amount and raw text of the two date cells of a bill row: fourteen days across a
\* month end, and a single day written without separators
BillOffers ==
    {[amount |-> 29, start |-> Text(<<"1", "1", "2", "/", "0", "9", "/", "2", "4">>),
                     end |-> Text(<<"1", "1", "2", "/", "1", "0", "/", "0", "7">>)],
     [amount |-> 7, start |-> Text(<<"1", "1", "2", "1", "0", "0", "1">>),
                    end |-> Text(<<"1", "1", "2", "1", "0", "0", "1">>)]}

\* a bill named like the total column whose period ends before it starts, and a bill
\* whose start is no calendar date
OddBillRows ==
    {[name |-> TotalKey, amount |-> 7,
      start |-> Text(<<"1", "1", "2", "/", "1", "0", "/", "0", "2">>),
      end |-> Text(<<"1", "1", "2", "/", "0", "9", "/", "3", "0">>)],
     [name |-> "W", amount |-> 100,
      start |-> Text(<<"1", "3", "/", "4", "5", "/", "9", "9">>),
      end |-> Text(<<"1", "1", "2", "/", "1", "0", "/", "0", "7">>)]}

BillRows ==
    {[name |-> n, amount |-> o.amount, start |-> o.start, end |-> o.end] :
        n \in BillNames, o \in BillOffers} \cup OddBillRows

\* raw text of the two date cells of a residency row: the last seven days of a month,
\* and the first seven of the next, one cell with a tab in front, the other in
\* full-width digits
Stays ==
    {[start |-> Text(<<"1", "1", "2", "/", "0", "9", "/", "2", "4">>),
      end |-> Text(<<"1", "1", "2", "/", "0", "9", "/", "3", "0">>)],
     [start |-> Text(<<"\t", "1", "1", "2", "-", "1", "0", "-", "0", "1">>),
      end |-> Text(<<"U+FF11", "U+FF11", "U+FF12", ".", "1", "0", ".", "0", "U+FF17">>)]}

\* a residency row whose end cell was left blank
OddStudentRows ==
    {[name |-> "B", start |-> Text(<<"1", "1", "2", "/", "0", "9", "/", "3", "0">>),
      end |-> Text(<<>>)]}

StudentRows ==
    {[name |-> n, start |-> p.start, end |-> p.end] : n \in StudentNames, p \in Stays}
    \cup OddStudentRows

BillTables == UNION {[1..n -> BillRows] : n \in 1..MaxBills}

StudentTables == UNION {[1..n -> StudentRows] : n \in 1..MaxStudents}

EmptyMap == [x \in {} |-> 0]

NoResult == [cost |-> NoTable, days_view |-> NoTable, days_raw |-> NoTable, logs |-> <<>>]

\* lines 188-193: the button calls calculate_costs with two non-empty tables
CalcInit ==
    /\ df_bills \in BillTables
    /\ df_students \in StudentTables
    /\ pc = "start"
    /\ unique_students = <<>>
    /\ cost_details = EmptyMap
    /\ day_details = EmptyMap
    /\ total_costs = EmptyMap
    /\ daily_log = <<>>
    /\ bill_idx = 0
    /\ temp_student_days = EmptyMap
    /\ total_person_days = 0
    /\ result = NoResult

\* the parts of the state a specification does not use
CalcIdle ==
    /\ df_bills = <<>> /\ df_students = <<>> /\ pc = "idle" /\ unique_students = <<>>
    /\ cost_details = EmptyMap /\ day_details = EmptyMap /\ total_costs = EmptyMap
    /\ daily_log = <<>> /\ bill_idx = 0 /\ temp_student_days = EmptyMap
    /\ total_person_days = 0 /\ result = NoResult

RtIdle ==
    /\ rt_d = None /\ rt_how = "none" /\ rt_text = Missing /\ rt_out = None
    /\ rt_pc = "idle"

PIdle == p_in = Missing /\ p_out = None /\ p_pc = "idle"

Init == CalcInit /\ RtIdle /\ PIdle

Next ==
    \/ Preprocess /\ UNCHANGED <<rt_vars, p_vars>>
    \/ InitContainers /\ UNCHANGED <<rt_vars, p_vars>>
    \/ BillStep /\ UNCHANGED <<rt_vars, p_vars>>
    \/ Output /\ UNCHANGED <<rt_vars, p_vars>>

Spec == Init /\ [][Next]_vars

InitRoundTrip == CalcIdle /\ RtInit /\ PIdle

NextRoundTrip ==
    \/ FormatDate /\ UNCHANGED <<calc_vars, p_vars>>
    \/ TypeDate /\ UNCHANGED <<calc_vars, p_vars>>
    \/ ParseText /\ UNCHANGED <<calc_vars, p_vars>>

SpecRoundTrip == InitRoundTrip /\ [][NextRoundTrip]_vars

InitParse == CalcIdle /\ RtIdle /\ PInit

NextParse == ParseCell /\ UNCHANGED <<calc_vars, rt_vars>>

SpecParse == InitParse /\ [][NextParse]_vars

----------------------------------------------------------------------------
(* What the specification says the allocation computes, written as closed forms *)

RECURSIVE SeqSum(_)
SeqSum(s) == IF s = <<>> THEN 0 ELSE Head(s) + SeqSum(Tail(s))

\* max(0, (min(bill.end, record.end) - max(bill.start, record.start)).days + 1)
SpecOverlap(b, r) ==
    LET n == Ordinal(MinDate(b.end_dt, r.end_dt)) - Ordinal(MaxDate(b.start_dt, r.start_dt)) + 1
    IN  IF n > 0 THEN n ELSE 0

\* d_r for bill row i: the overlap days of every record carrying the name r
DaysOf(r, i) ==
    SeqSum([j \in DOMAIN df_students |->
               IF df_students[j].name = r THEN SpecOverlap(df_bills[i], df_students[j]) ELSE 0])

\* T for bill row i: the overlap days of every record
PersonDays(i) ==
    SeqSum([j \in DOMAIN df_students |-> SpecOverlap(df_bills[i], df_students[j])])

Residents == Range(Column(df_students, "name"))

\* Exact arithmetic: a fraction n/d in lowest terms, d > 0
RECURSIVE Gcd(_, _)
Gcd(a, b) == IF b = 0 THEN a ELSE Gcd(b, a % b)

Frac(n, d) == LET g == Gcd(Abs(n), d) IN [n |-> n \div g, d |-> d \div g]

FracAdd(a, b) == Frac(a.n * b.d + b.n * a.d, a.d * b.d)

RECURSIVE FracSum(_)
FracSum(s) == IF s = <<>> THEN Frac(0, 1) ELSE FracAdd(Head(s), FracSum(Tail(s)))

\* the nearest whole number to a fraction, a tie to the even one
RoundHalfEven(a) ==
    LET q == a.n \div a.d
        r == a.n % a.d
    IN  IF 2 * r < a.d THEN q
        ELSE IF 2 * r > a.d THEN q + 1
        ELSE IF q % 2 = 0 THEN q ELSE q + 1

\* the float x has exactly the value of the fraction a
IsExactly(x, a) ==
    IF a.n = 0 THEN x.m = <<>>
    ELSE /\ x.m # <<>>
         /\ x.neg = (a.n < 0)
         /\ IF x.e >= 0
            THEN TrimHigh(BMulSmall(Zeros(x.e) \o x.m, a.d, 0)) = NatBits(Abs(a.n))
            ELSE TrimHigh(BMulSmall(x.m, a.d, 0)) = Zeros(-x.e) \o NatBits(Abs(a.n))

\* d_r * amount / T for bill row i as an exact fraction, nothing when T = 0
ExactShare(r, i) ==
    IF PersonDays(i) > 0 THEN Frac(DaysOf(r, i) * df_bills[i].amount, PersonDays(i))
    ELSE Frac(0, 1)

\* the exact sum of the shares of resident r over the first k bill rows
ExactTotal(r, k) == FracSum([i \in 1..k |-> ExactShare(r, i)])

\* the same over the rows of the bill name c
ExactColumn(r, c, k) ==
    FracSum([i \in 1..k |-> IF df_bills[i].name = c THEN ExactShare(r, i) ELSE Frac(0, 1)])

\* the row of a result table that belongs to resident r
RowOf(table, r) == table.rows[CHOOSE k \in DOMAIN unique_students : unique_students[k] = r]

BillNamesDistinct ==
    \A i, j \in DOMAIN df_bills : i # j => df_bills[i].name # df_bills[j].name

BadBillDate ==
    \E i \in DOMAIN df_bills :
        parse_roc_date(df_bills[i].start) = None \/ parse_roc_date(df_bills[i].end) = None

BadStudentDate ==
    \E j \in DOMAIN df_students :
        parse_roc_date(df_students[j].start) = None
        \/ parse_roc_date(df_students[j].end) = None

Running == pc \in {"loop", "done"}

----------------------------------------------------------------------------
(* Claims *)

\* C1: if any of the date cells of either table cannot be parsed, the call returns
\* (None, None, None, [one message]) and builds neither tables nor anomaly entries;
\* the message names the bill table when a bill date failed, the student table when
\* only student dates failed.
C1_AllOrNothing ==
    (pc # "start" /\ (BadBillDate \/ BadStudentDate)) =>
        /\ pc = "error"
        /\ result = [cost |-> NoTable, days_view |-> NoTable, days_raw |-> NoTable,
                     logs |-> <<IF BadBillDate THEN BillDateError ELSE StudentDateError>>]
        /\ daily_log = <<>>
        /\ cost_details = EmptyMap /\ day_details = EmptyMap /\ total_costs = EmptyMap

\* C1 witness: a run of two student rows and a bill table without fault, ended by the
\* single message for the student table
C1_Witness ==
    /\ pc = "error"
    /\ ~BadBillDate /\ BadStudentDate
    /\ Len(df_students) = 2 /\ Len(df_bills) = 2
    /\ result.logs = <<StudentDateError>>

\* C2: after any number of bill rows, a resident's running total is exactly the sum of
\* d_r * amount / T over the finished rows with T > 0, the per-bill share under a
\* column is exactly that sum over the rows of that name, and total_owed is the
\* rounding of the sum over all bills.
C2_ExactlyProportional ==
    Running =>
        /\ \A r \in Residents :
            /\ IsExactly(total_costs[r], ExactTotal(r, bill_idx))
            /\ \A c \in Range(Column(df_bills, "name")) :
                IsExactly(cost_details[r][c], ExactColumn(r, c, bill_idx))
        /\ (pc = "done") =>
            \A r \in Residents :
                RowOf(result.cost, r)[TotalKey] = RoundHalfEven(ExactTotal(r, Len(df_bills)))

\* C3: with distinct bill names, for every bill with T > 0 the rounded values of its
\* column add up to its amount, give or take the number of unique residents.
C3_Conservation ==
    (pc = "done" /\ BillNamesDistinct /\ \A i \in DOMAIN df_bills : df_bills[i].amount >= 0) =>
        \A i \in DOMAIN df_bills :
            PersonDays(i) > 0 =>
                Abs(SeqSum([k \in DOMAIN result.cost.rows |->
                               result.cost.rows[k][df_bills[i].name]])
                    - df_bills[i].amount) <= Len(unique_students)

\* C3 witness: a bill whose rounded column does not add up to the amount exactly
C3_Witness ==
    /\ pc = "done" /\ BillNamesDistinct
    /\ \E i \in DOMAIN df_bills :
        /\ PersonDays(i) > 0
        /\ SeqSum([k \in DOMAIN result.cost.rows |->
                      result.cost.rows[k][df_bills[i].name]]) # df_bills[i].amount

\* the anomaly entries of the first k bill rows, in table order
RECURSIVE ExpectedLog(_)
ExpectedLog(k) ==
    IF k = 0 THEN <<>>
    ELSE IF PersonDays(k) = 0
         THEN Append(ExpectedLog(k - 1),
                     [bill |-> df_bills[k].name, amount |-> df_bills[k].amount])
         ELSE ExpectedLog(k - 1)

C7_Log ==
    Running =>
        /\ daily_log = ExpectedLog(bill_idx)
        /\ (pc = "done") => (result.logs = ExpectedLog(Len(df_bills)) /\ ~result.cost.isnone)

C7_Step ==
    (pc = "loop" /\ bill_idx < Len(df_bills)) =>
        IF PersonDays(bill_idx + 1) = 0
        THEN total_costs' = total_costs /\ cost_details' = cost_details
        ELSE pc' = "loop" /\ daily_log' = daily_log
             /\ (df_bills[bill_idx + 1].amount > 0 => total_costs' # total_costs)

\* C7: the anomaly log holds one entry, naming bill and amount, for each bill row with
\* T = 0 and for no other, in table order; the pass over such a row changes no share
\* and no total, and the pass over any other row still allocates it, whatever the log
\* holds by then.
C7_AnomalyLog == []C7_Log /\ [][C7_Step]_vars

\* C7 witness: the first bill row was an anomaly, the second was allocated all the same
C7_Witness ==
    /\ pc = "done"
    /\ Len(df_bills) = 2 /\ PersonDays(1) = 0 /\ PersonDays(2) > 0
    /\ result.logs = <<[bill |-> df_bills[1].name, amount |-> df_bills[1].amount]>>
    /\ \E r \in Residents : result.cost.rows[1][NameKey] = r /\ total_costs[r].m # <<>>

\* C8: with distinct bill names, the day count of resident r under bill b is the sum of
\* max(0, overlap + 1) over every record named r, never negative; the total person-days
\* of a bill row is the sum of the counts of all residents.
C8_DayCounting ==
    (Running /\ BillNamesDistinct) =>
        /\ \A i \in 1..bill_idx : \A r \in Residents :
            /\ day_details[r][df_bills[i].name] = DaysOf(r, i)
            /\ day_details[r][df_bills[i].name] >= 0
        /\ (bill_idx >= 1) =>
            total_person_days =
                SeqSum([k \in DOMAIN unique_students |-> DaysOf(unique_students[k], bill_idx)])
        /\ (pc = "done") =>
            \A r \in Residents : \A i \in DOMAIN df_bills :
                RowOf(result.days_raw, r)[df_bills[i].name] = DaysOf(r, i)

\* C8 witness: two records of one resident cover the same days of a bill, and the count
\* is larger than the number of days the bill has; another bill ends before it starts
\* and counts 0
C8_Witness ==
    /\ pc = "done" /\ BillNamesDistinct /\ Len(df_bills) = 2
    /\ \E i, j \in DOMAIN df_bills : \E r \in Residents :
        /\ day_details[r][df_bills[i].name]
              > Ordinal(df_bills[i].end_dt) - Ordinal(df_bills[i].start_dt) + 1
        /\ day_details[r][df_bills[i].name] > 0
        /\ Ordinal(df_bills[j].end_dt) < Ordinal(df_bills[j].start_dt)
        /\ day_details[r][df_bills[j].name] = 0

\* C9: the call leaves both input tables as the caller passed them: the same columns.
C9_InputsUntouched ==
    (pc # "start") =>
        /\ \A i \in DOMAIN df_bills : DOMAIN df_bills[i] = BillColumns
        /\ \A j \in DOMAIN df_students : DOMAIN df_students[j] = StudentColumns

\* C10: in every successful result, a positive amount under a column goes with a
\* positive day count under that column, also when bill names repeat.
C10_CostImpliesDays ==
    (pc = "done") =>
        \A r \in Residents : \A c \in Range(Column(df_bills, "name")) :
            (cost_details[r][c].m # <<>> /\ ~cost_details[r][c].neg) => day_details[r][c] > 0

\* C4 as stated: parsing the rendering of any valid date gives the date back.
C4_RoundTripAnyDate ==
    (rt_pc = "done" /\ rt_how = "format") => rt_out = rt_d

\* C4 amended: parsing the rendering of a valid date whose year minus 1911 has two or
\* three digits gives the date back.
C4_RoundTripRocYears ==
    (rt_pc = "done" /\ rt_how = "format" /\ rt_d.year - RocOffset \in 10..999) =>
        rt_out = rt_d

\* C4 witness: a date of a two-digit year came back
C4_Witness ==
    /\ rt_pc = "done" /\ rt_how = "format"
    /\ rt_d.year - RocOffset \in 10..99
    /\ rt_out = rt_d

\* C5: for a date whose year minus 1911 has two or three digits, each of the four
\* typed renderings parses to that date.
C5_FormatAcceptance ==
    (rt_pc = "done" /\ rt_how \in {"/", "-", ".", "nosep"}
        /\ rt_d.year - RocOffset \in 10..999) =>
        rt_out = rt_d

\* the whole text is year, optional separator, month, optional separator, day, and
\* names a calendar date
WholeTextIsRocDate(cell) ==
    /\ ~cell.na
    /\ LET s == Strip(cell.s)
       IN  \E yl \in {2, 3}, u1 \in {0, 1}, ml \in {1, 2}, u2 \in {0, 1}, dl \in {1, 2} :
             /\ yl + u1 + ml + u2 + dl = Len(s)
             /\ MatchesAs(s, yl, u1, ml, u2, dl)
             /\ ValidDate(ToInt(s, 1, yl) + 1911, ToInt(s, yl + u1 + 1, ml),
                          ToInt(s, yl + u1 + ml + u2 + 1, dl))

\* C6: parse_roc_date returns a date only for a text that is, as a whole, a ROC date.
C6_NoFalseAccepts ==
    (p_pc = "done" /\ p_out # None) => WholeTextIsRocDate(p_in)

====
